---- MODULE Spec2Model ----
(***************************************************************************)
(* Model of riemax/numerical/curves.py: the null-space parameterised cubic *)
(* spline (CubicSpline, _compute_basis, _compute_coefficients,             *)
(* _eval_polynomials, _curve, _curve_t, _curve_tt).                        *)
(*                                                                         *)
(* Arrays are functions on 0..n-1, as in the source's indexing.  Numbers   *)
(* are exact rationals <<numerator, denominator>> in lowest terms with a   *)
(* positive denominator, so equality of values is equality of pairs; the   *)
(* model is the source's arithmetic without floating-point rounding.       *)
(***************************************************************************)
EXTENDS Integers, FiniteSets, Sequences, TLC

(* ------------------------------ bounds --------------------------------- *)
\* largest num_nodes a descriptor is built with (num_edges = num_nodes - 1)
MaxNodes == 4
\* largest sum of |entry| over the parameter matrix
MaxNorm == 1

(* --------------------------- exact rationals --------------------------- *)
Abs(a) == IF a < 0 THEN -a ELSE a
Min(a, b) == IF a < b THEN a ELSE b

RECURSIVE GCD(_, _)
GCD(a, b) == IF b = 0 THEN a ELSE GCD(b, a % b)

RatG(n, d, g) ==
    IF d < 0 THEN <<(-n) \div g, (-d) \div g>> ELSE <<n \div g, d \div g>>

Rat(n, d) == RatG(n, d, GCD(Abs(n), Abs(d)))

Zero == <<0, 1>>
One == <<1, 1>>
FromInt(k) == <<k, 1>>

\* sums over the least common denominator and products with the common
\* factors taken out first, which keeps the intermediate integers small
LCM(a, b) == (a \div GCD(a, b)) * b

RAddL(x, y, l) == Rat(x[1] * (l \div x[2]) + y[1] * (l \div y[2]), l)

RAdd(x, y) ==
    IF x[1] = 0 THEN y
    ELSE IF y[1] = 0 THEN x
    ELSE RAddL(x, y, LCM(x[2], y[2]))

RNeg(x) == <<-x[1], x[2]>>
RSub(x, y) == RAdd(x, RNeg(y))

RMulG(x, y, g1, g2) ==
    <<(x[1] \div g1) * (y[1] \div g2), (x[2] \div g2) * (y[2] \div g1)>>

RMul(x, y) ==
    IF x[1] = 0 \/ y[1] = 0 THEN Zero
    ELSE RMulG(x, y, GCD(Abs(x[1]), y[2]), GCD(Abs(y[1]), x[2]))

RDiv(x, y) == RMul(x, Rat(y[2], y[1]))
RLess(x, y) == x[1] * y[2] < y[1] * x[2]

RECURSIVE RPow(_, _)
RPow(x, k) == IF k = 0 THEN One ELSE RMul(x, RPow(x, k - 1))

\* jnp.floor on an exact value
RFloor(x) == x[1] \div x[2]

(* ------------------------------ arrays --------------------------------- *)
Size(a) == Cardinality(DOMAIN a)

\* an array held as its table of values rather than as the rule computing them
Array(f) == f @@ <<>>

\* jnp.zeros((rows, cols)) and jnp.zeros((n,))
ZerosVec(n) == Array([j \in 0..(n - 1) |-> Zero])
Zeros(rows, cols) == Array([i \in 0..(rows - 1) |-> ZerosVec(cols)])

\* a.at[i, lo:lo+len(fill)].set(fill)
SetSlice(a, i, lo, fill) ==
    [a EXCEPT ![i] = Array([j \in DOMAIN a[i] |->
        IF j >= lo /\ j < lo + Size(fill) THEN fill[j - lo] ELSE a[i][j]])]

\* jnp.concatenate((a, b)) along axis 0
Concat(a, b) ==
    Array([i \in 0..(Size(a) + Size(b) - 1) |->
        IF i < Size(a) THEN a[i] ELSE b[i - Size(a)]])

\* sum of f[j] over j in 0..(n-1)
RECURSIVE RSum(_, _)
RSum(f, n) == IF n = 0 THEN Zero ELSE RAdd(RSum(f, n - 1), f[n - 1])

\* jnp.linspace(0, 1, num)[1:-1]
linspace_interior(num) ==
    Array([i \in 0..(num - 3) |-> Rat(i + 1, num - 1)])

(* --------------------------- _compute_basis ---------------------------- *)
Negate(fill) == Array([j \in DOMAIN fill |-> RNeg(fill[j])])

\* the loop "for i in range(num_edges - 1)": row i gets fill(t[i]) on the
\* block of segment i and -fill(t[i]) on the block of segment i + 1
\* (fills[i] is the source's fill for t[i])
RECURSIVE continuity_loop(_, _, _, _)
continuity_loop(rows, i, num_edges, fills) ==
    IF i >= num_edges - 1 THEN rows
    ELSE continuity_loop(
             SetSlice(SetSlice(rows, i, 4 * i, fills[i]),
                      i, 4 * i + 4, Negate(fills[i])),
             i + 1, num_edges, fills)

\* variant: the second row sets only the last entry (.at[1, -1])
end_points_last_entry(num_edges) ==
    SetSlice(SetSlice(Zeros(2, 4 * num_edges), 0, 0, [j \in 0..0 |-> One]),
             1, 4 * num_edges - 1, [j \in 0..0 |-> One])

end_points(num_edges) ==
    SetSlice(SetSlice(Zeros(2, 4 * num_edges), 0, 0, [j \in 0..0 |-> One]),
             1, 4 * num_edges - 4, [j \in 0..3 |-> One])

\* variant: the cubic monomial written with exponent 2
zeroth_fill_square(t) == Array([j \in 0..3 |-> RPow(t, Min(j, 2))])

zeroth_fill(t) == Array([j \in 0..3 |-> RPow(t, j)])

zeroth(num_edges) ==
    LET t == linspace_interior(num_edges + 1)
    IN  continuity_loop(Zeros(num_edges - 1, 4 * num_edges), 0, num_edges,
                        Array([i \in DOMAIN t |-> zeroth_fill(t[i])]))

\* variant: the derivative of t^3 written 3 t
first_fill_linear(t) ==
    Array([j \in 0..3 |->
        CASE j = 0 -> Zero
          [] j = 1 -> One
          [] j = 2 -> RMul(FromInt(2), t)
          [] j = 3 -> RMul(FromInt(3), t)])

first_fill(t) ==
    Array([j \in 0..3 |->
        CASE j = 0 -> Zero
          [] j = 1 -> One
          [] j = 2 -> RMul(FromInt(2), t)
          [] j = 3 -> RMul(FromInt(3), RPow(t, 2))])

first(num_edges) ==
    LET t == linspace_interior(num_edges + 1)
    IN  continuity_loop(Zeros(num_edges - 1, 4 * num_edges), 0, num_edges,
                        Array([i \in DOMAIN t |-> first_fill(t[i])]))

second_fill(t) ==
    Array([j \in 0..3 |->
        CASE j = 0 -> Zero
          [] j = 1 -> Zero
          [] j = 2 -> RMul(FromInt(6), t)
          [] j = 3 -> FromInt(2)])

second(num_edges) ==
    LET t == linspace_interior(num_edges + 1)
    IN  continuity_loop(Zeros(num_edges - 1, 4 * num_edges), 0, num_edges,
                        Array([i \in DOMAIN t |-> second_fill(t[i])]))

\* variant: the second-derivative rows left out of the concatenation
constraints_without_second(num_edges) ==
    Concat(Concat(end_points(num_edges), zeroth(num_edges)), first(num_edges))

constraints(num_edges) ==
    Concat(Concat(Concat(end_points(num_edges), zeroth(num_edges)),
                  first(num_edges)), second(num_edges))

(* jnp.linalg.svd(constraints, full_matrices=True) returns s, one singular  *)
(* value per row or column, whichever are fewer, and the square vt whose    *)
(* first rank(constraints) rows span the row space of constraints and whose *)
(* other rows span its null space.  The model computes rows with these      *)
(* spans by exact Gauss-Jordan elimination; they are not normalised, which  *)
(* changes the parameters that give a coefficient vector, not the set of    *)
(* coefficient vectors the parameters range over.                           *)
svd_s_size(m, cols) == Min(Size(m), cols)

\* Gauss-Jordan elimination from row r and column c on
SwapRows(m, r, p) == [m EXCEPT ![r] = m[p], ![p] = m[r]]

ScaleRow(row, c, cols) == Array([j \in 0..(cols - 1) |-> RDiv(row[j], row[c])])

Eliminate(m, nrm, r, c, cols) ==
    Array([i \in DOMAIN m |->
        IF i = r THEN nrm
        ELSE Array([j \in 0..(cols - 1) |->
                 RSub(m[i][j], RMul(m[i][c], nrm[j]))])])

ReduceAt(m, r, c, cols) == Eliminate(m, ScaleRow(m[r], c, cols), r, c, cols)

PivotRows(m, r, c) == {i \in r..(Size(m) - 1) : m[i][c] # Zero}

SetMin(S) == CHOOSE x \in S : \A y \in S : x <= y

RECURSIVE RowReduce(_, _, _, _)
RowReduce(m, r, c, cols) ==
    IF r >= Size(m) \/ c >= cols THEN m
    ELSE IF PivotRows(m, r, c) = {} THEN RowReduce(m, r, c + 1, cols)
    ELSE RowReduce(ReduceAt(SwapRows(m, r, SetMin(PivotRows(m, r, c))), r, c, cols),
                   r + 1, c + 1, cols)

IsZeroRow(row) == \A j \in DOMAIN row : row[j] = Zero

PivotCol(row) == SetMin({j \in DOMAIN row : row[j] # Zero})

\* the k-th smallest element (k from 0) of a finite set of integers
RECURSIVE Nth(_, _)
Nth(S, k) == IF k = 0 THEN SetMin(S) ELSE Nth(S \ {SetMin(S)}, k - 1)

LiveRows(red) == {i \in DOMAIN red : ~IsZeroRow(red[i])}

Pivots(red) == {PivotCol(red[i]) : i \in LiveRows(red)}

\* the solution of red.x = 0 with free variable f set to 1, the others to 0
NullRow(red, live, pivots, f, cols) ==
    Array([j \in 0..(cols - 1) |->
        IF j = f THEN One
        ELSE IF j \in pivots
             THEN RNeg(red[CHOOSE i \in live : PivotCol(red[i]) = j][f])
             ELSE Zero])

VtRows(red, live, pivots, cols) ==
    Array([k \in 0..(cols - 1) |->
        IF k < Cardinality(live) THEN red[k]
        ELSE NullRow(red, live, pivots,
                     Nth((0..(cols - 1)) \ pivots, k - Cardinality(live)), cols)])

Reduced(m, cols) == RowReduce(m, 0, 0, cols)

svd_vt(m, cols) ==
    VtRows(Reduced(m, cols), LiveRows(Reduced(m, cols)),
           Pivots(Reduced(m, cols)), cols)

\* basis = vt.T[:, s.size:]
basis_slice(vt, s_size, cols) ==
    Array([r \in 0..(cols - 1) |->
        Array([c \in 0..(cols - s_size - 1) |-> vt[s_size + c][r]])])

_compute_basis(num_edges) ==
    basis_slice(svd_vt(constraints(num_edges), 4 * num_edges),
                svd_s_size(constraints(num_edges), 4 * num_edges),
                4 * num_edges)

(* ------------------------- CubicSpline fields -------------------------- *)
from_nodes(p, q, num_nodes) ==
    [p |-> p, q |-> q, basis |-> _compute_basis(num_nodes - 1),
     num_nodes |-> num_nodes, num_edges |-> num_nodes - 1]

\* variant: jnp.ones in place of jnp.zeros
init_params_ones(self) ==
    Array([i \in 0..(self.num_nodes - 1) |->
        Array([c \in 0..(Size(self.p) - 1) |-> One])])

\* jnp.zeros((self.num_nodes, self.p.shape[0]))
init_params(self) == Zeros(self.num_nodes, Size(self.p))

(* ------------------------ _compute_coefficients ------------------------ *)
\* jnp.einsum('...nc, ...cd -> ...nd', basis, params)
x_in_null(basis, params) ==
    [n \in DOMAIN basis |-> [d \in DOMAIN params[0] |->
        RSum([c \in DOMAIN params |-> RMul(basis[n][c], params[c][d])],
             Size(params))]]

\* einops.rearrange(x, '(num_nodes degree) ndim -> num_nodes degree ndim', degree=4)
rearrange(x, degree) ==
    [i \in 0..((Size(x) \div degree) - 1) |->
        [j \in 0..(degree - 1) |-> x[degree * i + j]]]

_compute_coefficients(basis, params) == rearrange(x_in_null(basis, params), 4)

(* -------------------------- _eval_straight_line ------------------------ *)
_eval_straight_line(t, p, q) ==
    [c \in DOMAIN p |-> RAdd(p[c], RMul(RSub(q[c], p[c]), t))]

(* --------------------------- _eval_polynomials ------------------------- *)
clip(x, lo, hi) == IF x < lo THEN lo ELSE IF x > hi THEN hi ELSE x

\* variant: the time scaled by the number of interior knots
segment_index_interior(t, num_edges) ==
    clip(RFloor(RMul(t, FromInt(num_edges - 1))), 0, num_edges - 1)

\* jnp.floor(t * num_edges).clip(0, num_edges - 1).astype(jnp.int32)
segment_index(t, num_edges) ==
    clip(RFloor(RMul(t, FromInt(num_edges))), 0, num_edges - 1)

\* jnp.power(t, arange(0, degree)) times coeffs_idx, summed over the degree axis
polynomial(t, coeffs_idx, degree) ==
    [c \in DOMAIN coeffs_idx[0] |->
        RSum([j \in 0..(degree - 1) |-> RMul(RPow(t, j), coeffs_idx[j][c])],
             degree)]

_eval_polynomials(t, num_edges, coeffs, degree) ==
    polynomial(t, coeffs[segment_index(t, num_edges)], degree)

(* ------------------------ _curve, _curve_t, _curve_tt ------------------ *)
VAdd(x, y) == [c \in DOMAIN x |-> RAdd(x[c], y[c])]
VSub(x, y) == [c \in DOMAIN x |-> RSub(x[c], y[c])]

_curve(t, params, spline) ==
    VAdd(_eval_straight_line(t, spline.p, spline.q),
         _eval_polynomials(t, spline.num_edges,
                           _compute_coefficients(spline.basis, params), 4))

\* jnp.arange(lo, hi)
arange(lo, hi) == [k \in 0..(hi - lo - 1) |-> lo + k]

\* a.reshape(1, n, 1): raises unless a has n entries
reshape(a, n) ==
    IF Size(a) = n THEN [raised |-> FALSE, value |-> a]
    ELSE [raised |-> TRUE, value |-> <<>>]

\* variant: the slice taken without the scale
slice_unscaled(coefficients, from, scale) ==
    [i \in DOMAIN coefficients |-> [j \in DOMAIN scale |->
        coefficients[i][j + from]]]

\* coefficients[:, from:, :] * scale, scale broadcast along the degree axis
slice_times(coefficients, from, scale) ==
    [i \in DOMAIN coefficients |-> [j \in DOMAIN scale |->
        [d \in DOMAIN coefficients[i][0] |->
            RMul(coefficients[i][j + from][d], FromInt(scale[j]))]]]

_curve_t(t, params, spline) ==
    LET scale == reshape(arange(1, 4), 3)
    IN  IF scale.raised THEN scale
        ELSE [raised |-> FALSE,
              value |-> VAdd(VSub(spline.q, spline.p),
                  _eval_polynomials(t, spline.num_edges,
                      slice_times(_compute_coefficients(spline.basis, params),
                                  1, scale.value), 3))]

_curve_tt(t, params, spline) ==
    LET scale == reshape(arange(1, 4), 2)
    IN  IF scale.raised THEN scale
        ELSE [raised |-> FALSE,
              value |-> _eval_polynomials(t, spline.num_edges,
                  slice_times(_compute_coefficients(spline.basis, params),
                              2, scale.value), 2)]

\* CubicSpline.evaluate: TangentSpace(point=y, vector=y_dot)
evaluate(self, t, params) ==
    LET y_dot == _curve_t(t, params, self)
    IN  IF y_dot.raised THEN [raised |-> TRUE, point |-> <<>>, vector |-> <<>>]
        ELSE [raised |-> FALSE, point |-> _curve(t, params, self),
              vector |-> y_dot.value]

(* ---------------------------- state machine ---------------------------- *)
VARIABLES
    spline,   \* the CubicSpline descriptor built by from_nodes
    params,   \* the caller's parameter matrix, shape (num_nodes, D)
    result    \* the last call on (t, params, spline) and what it returned

vars == <<spline, params, result>>

NoResult == [op |-> "none"]

\* endpoint pairs <<p, q>> in the plane: [0, 0] to [1, 1], a point of mixed
\* signs to the origin, and a closed curve (p = q)
Origin == (0 :> Zero @@ 1 :> Zero)
Ones == (0 :> One @@ 1 :> One)
Mixed == (0 :> FromInt(2) @@ 1 :> FromInt(-1))
Endpoints == {<<Origin, Ones>>, <<Mixed, Origin>>, <<Ones, Ones>>}

\* the dimension D of the ambient space, p.shape[0]
Dim == Size(Origin)

\* query times: the knots, the segment midpoints and times outside [0, 1]
Times(num_edges) ==
    {Rat(m, 2 * num_edges) : m \in (-1)..(2 * num_edges + 1)}

\* the sum of |m[i][c]| over the first n entries (row by row) of an integer
\* parameter matrix
RECURSIVE Norm(_, _)
Norm(m, n) ==
    IF n = 0 THEN 0
    ELSE Norm(m, n - 1) + Abs(m[(n - 1) \div Dim][(n - 1) % Dim][1])

Init ==
    \E num_nodes \in 2..MaxNodes, pq \in Endpoints :
        /\ spline = from_nodes(pq[1], pq[2], num_nodes)
        /\ params = init_params(spline)
        /\ result = NoResult

\* the caller takes a fresh parameter matrix from init_params
InitParams ==
    /\ result = NoResult
    /\ params' = init_params(spline)
    /\ result' = NoResult
    /\ UNCHANGED spline

\* the caller (an optimiser) moves one entry of the parameter matrix
Perturb ==
    \E i \in DOMAIN params, c \in 0..(Dim - 1), delta \in {-1, 1} :
        /\ params' = [params EXCEPT ![i][c] = RAdd(@, FromInt(delta))]
        /\ result = NoResult
        /\ Norm(params, Size(params) * Dim) - Abs(params[i][c][1])
              + Abs(params[i][c][1] + delta) <= MaxNorm
        /\ result' = NoResult
        /\ UNCHANGED spline

Evaluate ==
    \E t \in Times(spline.num_edges) :
        /\ result = NoResult
        /\ result' = [op |-> "evaluate", t |-> t] @@ evaluate(spline, t, params)
        /\ UNCHANGED <<spline, params>>

\* calls are synchronous: one is made once the last result has been taken
\* CubicSpline.__call__ forwards to evaluate
Call ==
    \E t \in Times(spline.num_edges) :
        /\ result = NoResult
        /\ result' = [op |-> "evaluate", t |-> t] @@ evaluate(spline, t, params)
        /\ UNCHANGED <<spline, params>>

CurveTT ==
    \E t \in Times(spline.num_edges) :
        /\ result = NoResult
        /\ result' = [op |-> "_curve_tt", t |-> t] @@ _curve_tt(t, params, spline)
        /\ UNCHANGED <<spline, params>>

\* the caller takes the value (or the exception) of the call
Return ==
    /\ result # NoResult
    /\ result' = NoResult
    /\ UNCHANGED <<spline, params>>

Next == InitParams \/ Perturb \/ Evaluate \/ Call \/ CurveTT \/ Return

Spec == Init /\ [][Next]_vars

(* ------------------------- notions used in claims ---------------------- *)
\* the per-segment coefficients the current parameters project to
Coefficients == _compute_coefficients(spline.basis, params)

Knot(k) == Rat(k, spline.num_edges)
InteriorKnots == 1..(spline.num_edges - 1)

Evaluated == result.op = "evaluate"
Accelerated == result.op = "_curve_tt"

VScale(a, x) == [c \in DOMAIN x |-> RMul(a, x[c])]
ZeroVec == [c \in 0..(Dim - 1) |-> Zero]

\* p + (q - p) * t, written out
Line(t) ==
    [c \in 0..(Dim - 1) |->
        RAdd(spline.p[c], RMul(RSub(spline.q[c], spline.p[c]), t))]

\* the cubic of segment i at time t, and its first and second derivatives
Cubic(i, t) ==
    [c \in 0..(Dim - 1) |->
        RAdd(RAdd(Coefficients[i][0][c], RMul(Coefficients[i][1][c], t)),
             RAdd(RMul(Coefficients[i][2][c], RPow(t, 2)),
                  RMul(Coefficients[i][3][c], RPow(t, 3))))]

CubicD1(i, t) ==
    [c \in 0..(Dim - 1) |->
        RAdd(Coefficients[i][1][c],
             RAdd(RMul(RMul(FromInt(2), Coefficients[i][2][c]), t),
                  RMul(RMul(FromInt(3), Coefficients[i][3][c]), RPow(t, 2))))]

CubicD2(i, t) ==
    [c \in 0..(Dim - 1) |->
        RAdd(RMul(FromInt(2), Coefficients[i][2][c]),
             RMul(RMul(FromInt(6), Coefficients[i][3][c]), t))]

\* C1: whatever the parameters, evaluate returns p at t = 0 and q at t = 1:
\* the perturbation of segment 0 vanishes at 0 and that of the last segment
\* vanishes at 1.
EndpointInterpolation ==
    /\ Cubic(0, Zero) = ZeroVec
    /\ Cubic(spline.num_edges - 1, One) = ZeroVec
    /\ Evaluated =>
        /\ ~result.raised
        /\ result.t = Zero => result.point = spline.p
        /\ result.t = One => result.point = spline.q

EndpointInterpolationWitness ==
    /\ Evaluated
    /\ result.t = One
    /\ spline.num_edges >= 2
    /\ segment_index(result.t, spline.num_edges) = spline.num_edges - 1
    /\ \E j \in 0..3 : Coefficients[spline.num_edges - 1][j] # ZeroVec

InUnitInterval(t) == ~RLess(t, Zero) /\ ~RLess(One, t)

\* C2: with the parameters of init_params every coefficient is zero, and for
\* every t in [0, 1] evaluate returns point = p + (q - p) * t and
\* vector = q - p; one edge from [0, 0] to [1, 1] at t = 1/2 gives
\* point [1/2, 1/2] and vector [1, 1].
ZeroParamsStraightLine ==
    (Evaluated /\ params = init_params(spline) /\ InUnitInterval(result.t)) =>
        /\ ~result.raised
        /\ \A i \in 0..(spline.num_edges - 1), j \in 0..3 :
              Coefficients[i][j] = ZeroVec
        /\ result.point = Line(result.t)
        /\ result.vector = VSub(spline.q, spline.p)
        /\ (spline.num_edges = 1 /\ spline.p = Origin /\ spline.q = Ones
                /\ result.t = Rat(1, 2)) =>
              /\ result.point = [c \in 0..(Dim - 1) |-> Rat(1, 2)]
              /\ result.vector = Ones

ZeroParamsStraightLineWitness ==
    /\ Evaluated
    /\ params = init_params(spline)
    /\ spline.num_edges = 1
    /\ spline.p = Origin
    /\ spline.q = Ones
    /\ result.t = Rat(1, 2)

\* C3: at every interior knot k / num_edges the cubics of segment k - 1 and
\* of segment k, both taken at the global time of the knot, give the same
\* position, so the point evaluate returns there (from segment k) is also
\* the one segment k - 1 gives.
ValueContinuity ==
    \A k \in InteriorKnots :
        /\ Cubic(k - 1, Knot(k)) = Cubic(k, Knot(k))
        /\ (Evaluated /\ result.t = Knot(k)) =>
              result.point = VAdd(Line(Knot(k)), Cubic(k - 1, Knot(k)))

ValueContinuityWitness ==
    /\ Evaluated
    /\ \E k \in InteriorKnots :
          /\ result.t = Knot(k)
          /\ Coefficients[k - 1] # Coefficients[k]
          /\ Cubic(k, Knot(k)) # ZeroVec

\* C4: at every interior knot the velocity c1 + 2 c2 t + 3 c3 t^2 of segment
\* k - 1 equals that of segment k, so the vector evaluate returns there is
\* also the one segment k - 1 gives.
FirstDerivativeContinuity ==
    \A k \in InteriorKnots :
        /\ CubicD1(k - 1, Knot(k)) = CubicD1(k, Knot(k))
        /\ (Evaluated /\ result.t = Knot(k)) =>
              result.vector =
                  VAdd(VSub(spline.q, spline.p), CubicD1(k - 1, Knot(k)))

FirstDerivativeContinuityWitness ==
    /\ Evaluated
    /\ \E k \in InteriorKnots :
          /\ result.t = Knot(k)
          /\ Coefficients[k - 1] # Coefficients[k]
          /\ CubicD1(k, Knot(k)) # ZeroVec

\* C5: at every interior knot the second derivative 2 c2 + 6 c3 t of segment
\* k - 1 equals that of segment k, for every coefficient vector the basis
\* produces.
SecondDerivativeContinuity ==
    \A k \in InteriorKnots : CubicD2(k - 1, Knot(k)) = CubicD2(k, Knot(k))

\* what the rows [0, 0, 6 t, 2] of _compute_basis equate across a knot is
\* 6 t c2 + 2 c3, the second derivative with c2 and c3 exchanged
SecondRowValue(i, t) ==
    [c \in 0..(Dim - 1) |->
        RAdd(RMul(RMul(FromInt(6), t), Coefficients[i][2][c]),
             RMul(FromInt(2), Coefficients[i][3][c]))]

SecondRowsEquate ==
    \A k \in InteriorKnots :
        SecondRowValue(k - 1, Knot(k)) = SecondRowValue(k, Knot(k))

StrictlyInside(t) ==
    /\ RLess(Zero, t)
    /\ RLess(t, One)
    /\ RMul(t, FromInt(spline.num_edges))[2] # 1

Step == Rat(1, 8 * spline.num_edges)

PositionDerivative(t) ==
    VScale(RDiv(One, RMul(FromInt(12), Step)),
        VSub(VScale(FromInt(8),
                 VSub(_curve(RAdd(t, Step), params, spline),
                      _curve(RSub(t, Step), params, spline))),
             VSub(_curve(RAdd(t, RMul(FromInt(2), Step)), params, spline),
                  _curve(RSub(t, RMul(FromInt(2), Step)), params, spline))))

\* C6: strictly inside a segment the vector evaluate returns is the
\* derivative in t of the point evaluate returns.  The derivative of the
\* position is taken from the position alone, by the five-point difference
\* quotient, which is exact on polynomials of degree at most four; the
\* step keeps the five times inside the segment of t.
DerivativeConsistency ==
    (Evaluated /\ StrictlyInside(result.t)) =>
        /\ ~result.raised
        /\ result.vector = PositionDerivative(result.t)

DerivativeConsistencyWitness ==
    /\ Evaluated
    /\ StrictlyInside(result.t)
    /\ spline.num_edges >= 2
    /\ result.vector # VSub(spline.q, spline.p)
    /\ \E c \in 0..(Dim - 1) :
          Coefficients[segment_index(result.t, spline.num_edges)][3][c] # Zero

PositionSecondDerivative(t) ==
    VScale(RDiv(One, RMul(Step, Step)),
        VAdd(VSub(_curve(RAdd(t, Step), params, spline),
                  VScale(FromInt(2), _curve(t, params, spline))),
             _curve(RSub(t, Step), params, spline)))

\* C7: strictly inside a segment the value _curve_tt returns is the second
\* derivative in t of the position, 2 c2 + 6 c3 t on that segment.  The
\* second derivative of the position is taken from the position alone, by
\* the second difference quotient, exact on cubics.
AccelerationIsSecondDerivative ==
    (Accelerated /\ StrictlyInside(result.t)) =>
        /\ ~result.raised
        /\ result.value = PositionSecondDerivative(result.t)
        /\ result.value =
              CubicD2(segment_index(result.t, spline.num_edges), result.t)

ConstraintShape(cons, n) ==
    /\ Size(cons) = 2 + 3 * (n - 1)
    /\ \A r \in DOMAIN cons : DOMAIN cons[r] = 0..(4 * n - 1)
    /\ svd_s_size(cons, 4 * n) = Size(cons)

ProjectionShape(x, coefficients, n) ==
    /\ DOMAIN x = 0..(4 * n - 1)
    /\ DOMAIN coefficients = 0..(n - 1)
    /\ \A i \in 0..(n - 1) :
          /\ DOMAIN coefficients[i] = 0..3
          /\ \A j \in 0..3 :
                /\ DOMAIN coefficients[i][j] = 0..(Dim - 1)
                /\ coefficients[i][j] = x[4 * i + j]

\* C8: the constraint matrix has 2 + 3 (num_edges - 1) rows and 4 num_edges
\* columns, svd returns one singular value per row, and the basis has
\* num_edges + 1 = num_nodes columns, the leading dimension of init_params;
\* the projection is 4 num_edges flat coefficients, entry 4 i + j being the
\* coefficient of t^j of segment i.
BasisShape ==
    /\ ConstraintShape(constraints(spline.num_edges), spline.num_edges)
    /\ DOMAIN spline.basis = 0..(4 * spline.num_edges - 1)
    /\ \A r \in DOMAIN spline.basis :
          DOMAIN spline.basis[r] = 0..spline.num_edges
    /\ spline.num_edges + 1 = spline.num_nodes
    /\ DOMAIN init_params(spline) = 0..(spline.num_nodes - 1)
    /\ DOMAIN params = DOMAIN init_params(spline)
    /\ ProjectionShape(x_in_null(spline.basis, params), Coefficients,
                       spline.num_edges)

BasisShapeWitness ==
    /\ Evaluated
    /\ ~result.raised
    /\ spline.num_edges >= 2
    /\ \E i \in 0..(spline.num_edges - 1), j \in 0..3 :
          Coefficients[i][j] # ZeroVec

\* C9: the selected segment is always one of 0..num_edges-1: the last one at
\* t = 1, segment k at the knot k / num_edges, segment 0 below 0 and the
\* last one above 1; a time outside [0, 1] is no error and the monomials
\* take the time as given.
SegmentSelectionInRange ==
    (result.op # "none") =>
        LET n == spline.num_edges
            t == result.t
            idx == segment_index(t, n)
        IN  /\ idx \in 0..(n - 1)
            /\ t = One => idx = n - 1
            /\ \A k \in 0..(n - 1) : t = Knot(k) => idx = k
            /\ RLess(t, Zero) => idx = 0
            /\ RLess(One, t) => idx = n - 1
            /\ Evaluated =>
                  /\ ~result.raised
                  /\ result.point = VAdd(Line(t), Cubic(idx, t))

SegmentSelectionInRangeWitness ==
    /\ Evaluated
    /\ RLess(One, result.t)
    /\ spline.num_edges >= 2
    /\ Cubic(spline.num_edges - 1, result.t) # ZeroVec

\* C10: _curve_tt completes on every valid (t, params, spline) and returns
\* one value per ambient dimension, the scale applied to
\* coefficients[:, 2:, :] having as many entries as the slice has degrees.
AccelerationCallSucceeds ==
    Accelerated =>
        /\ ~result.raised
        /\ DOMAIN result.value = 0..(Dim - 1)

====
